---- MODULE Spec2Model ----
(***************************************************************************)
(* Model of the Google Analytics report pipeline of src/__init__.py:       *)
(*   get_dataframes  the retry wrapper (exponential backoff),              *)
(*   get_report      one paged request to the reporting service,           *)
(*   get_ga_data     the extraction of the rows of one response,           *)
(*   get_response    sampling check, pagination, assembly, column names.   *)
(* The reporting service is the environment: each get_report call either   *)
(* returns a response or raises an error, chosen nondeterministically.     *)
(* Rows are kept as segments (start offset, number of rows) so that the    *)
(* program's page size keeps its real value.  Strings are sequences of     *)
(* one-character strings.                                                  *)
(***************************************************************************)
EXTENDS Integers, Sequences, FiniteSets

\* ------------------------------------------------------------------ bounds
\* The largest number of pages a reported rowCount spans.
MaxPages == 3
\* The longest column name the column-name specification enumerates.
MaxNameLen == 6
\* The longest metric value the extraction specification enumerates.
MaxValueLen == 4

\* ------------------------------------------------------- program constants
\* "pageSize": 100000 of the request, and the literal of get_response.
PageSize == 100000
\* for n in range(0, 5)
MaxAttempts == 5

\* ----------------------------------------------------------------- helpers
Min(a, b) == IF a < b THEN a ELSE b
Max(a, b) == IF a > b THEN a ELSE b

RECURSIVE Pow2(_)
\* 2**n
Pow2(k) == IF k = 0 THEN 1 ELSE 2 * Pow2(k - 1)

\* math.ceil(a / b) for a >= 0, b > 0
CeilDiv(a, b) == (a + b - 1) \div b

Digit == <<"0", "1", "2", "3", "4", "5", "6", "7", "8", "9">>

RECURSIVE StrReversed(_)
\* The digits least significant first.
StrReversed(i) == IF i < 10 THEN <<Digit[i + 1]>>
                  ELSE <<Digit[(i % 10) + 1]>> \o StrReversed(i \div 10)

RECURSIVE Str(_)
\* str(i) for an integer i >= 0: its decimal digits, most significant first.
Str(i) == IF i < 10 THEN <<Digit[i + 1]>>
          ELSE Str(i \div 10) \o <<Digit[(i % 10) + 1]>>

DigitValue(c) == (CHOOSE d \in 1..10 : Digit[d] = c) - 1

RECURSIVE TokenOffset(_)
\* The row offset the reporting service reads from a pageToken string.
TokenOffset(t) == IF Len(t) = 0 THEN 0
                  ELSE 10 * TokenOffset(SubSeq(t, 1, Len(t) - 1))
                       + DigitValue(t[Len(t)])

\* The literal '0' that get_dataframes passes as nextPageToken.
FirstToken == <<"0">>

\* --------------------------------------------------------- column names
Prefix == <<"g", "a", ":">>

RECURSIVE Lstrip(_)
\* s.lstrip('ga:'): drops every leading character that is one of g, a, :.
Lstrip(s) ==
    IF Len(s) = 0 THEN s
    ELSE IF Head(s) \in {"g", "a", ":"} THEN Lstrip(Tail(s)) ELSE s

RECURSIVE StrReplaceAll(_)
\* s.replace('ga:', ''): every non-overlapping occurrence, left to right.
StrReplaceAll(s) ==
    IF Len(s) < Len(Prefix) THEN s
    ELSE IF SubSeq(s, 1, Len(Prefix)) = Prefix
         THEN StrReplaceAll(SubSeq(s, Len(Prefix) + 1, Len(s)))
         ELSE <<Head(s)>> \o StrReplaceAll(Tail(s))

\* df.columns.str.replace('ga:', '') on one column name.
StripColumn(s) == StrReplaceAll(s)

\* The characters of the column names that are enumerated.
NameChars == {"g", "a", ":", "d"}

\* The column names of at most MaxNameLen characters.
ColumnNames == UNION { [1..k -> NameChars] : k \in 0..MaxNameLen }

\* The column headers of the query of the pipeline specification.
QueryColumns == << <<"g", "a", ":", "d">>, <<"g", "a", ":", "m">> >>

\* ------------------------------------------------------- the environment
\* The rowCount values the reporting service may report.
RowCounts ==
    { c \in { (k * PageSize) + d : k \in 0..MaxPages, d \in {-1, 0, 1} }
             \cup { (k * PageSize) - (PageSize \div 2) : k \in 1..MaxPages } :
        c >= 0 /\ c <= MaxPages * PageSize }

\* The rows a service holding rc rows returns for the page that starts at o.
PageRows(rc, o) == Min(PageSize, Max(0, rc - o))

\* error.resp.reason values that lead to a retry.
RetryReasons == {"userRateLimitExceeded", "quotaExceeded",
                 "internalServerError", "backendError"}

\* The errors a get_report call may raise: urllib's HTTPError (the class the
\* wrapper catches) with or without a resp attribute, googleapiclient's
\* HttpError, and a socket timeout.
Errors ==
    { [cls |-> "HTTPError", resp |-> TRUE, reason |-> r] :
        r \in RetryReasons \cup {"notFound"} }
    \cup { [cls |-> "HTTPError", resp |-> FALSE, reason |-> "-"] }
    \cup { [cls |-> "HttpError", resp |-> TRUE, reason |-> r] :
        r \in {"quotaExceeded", "notFound"} }
    \cup { [cls |-> "timeout", resp |-> FALSE, reason |-> "-"] }

NoError == [cls |-> "-", resp |-> FALSE, reason |-> "-"]

\* class SampledDataError(Exception), raised by get_response.
SampledDataError == [cls |-> "SampledDataError", resp |-> FALSE, reason |-> "-"]

\* An HTTPError that carries one of the retryable reasons.
RetryableFailure(e) ==
    e.cls = "HTTPError" /\ e.resp /\ e.reason \in RetryReasons

\* The jitter random.random() adds to a sleep, in milliseconds: [0, 1000).
Jitters == {0, 999}

\* The environment of the pipeline specification: every rowCount, one jitter.
PipelineEnv == [rowCounts |-> RowCounts, jitters |-> {500}]
\* The environment of the backoff specification: two rowCounts, the least
\* and the greatest jitter.
BackoffEnv == [rowCounts |-> {1, 2 * PageSize + 1}, jitters |-> Jitters]

NoResponse == [rowCount |-> -1, token |-> FALSE, src |-> FALSE, sss |-> FALSE,
               rows |-> 0, off |-> 0]

\* The responses of the service to the first request of an attempt when it
\* holds rc rows: src / sss say whether samplesReadCounts / samplingSpaceSizes
\* are non-empty, token whether nextPageToken is present, rows how many rows
\* the page carries.
FirstResponses(rc) ==
    { [rowCount |-> rc, token |-> tk, src |-> s1, sss |-> s2,
       rows |-> PageRows(rc, 0), off |-> 0] :
        tk \in BOOLEAN, s1 \in BOOLEAN, s2 \in BOOLEAN }

\* The responses to a request for page token t inside the page loop, of which
\* get_response reads the rows only: the rows due or none, sampled or not.
PageResponses(t, rc) ==
    { [rowCount |-> rc, token |-> (rc > TokenOffset(t) + PageSize),
       src |-> s1, sss |-> FALSE, rows |-> r, off |-> TokenOffset(t)] :
        s1 \in BOOLEAN, r \in {PageRows(rc, TokenOffset(t)), 0} }

\* ------------------------------------------------------------ get_ga_data
\* The characters of the metric values that are enumerated.
ValueChars == {"1", "2", "3", "4", "5", ".", ","}
DecimalDigits == {"0", "1", "2", "3", "4", "5", "6", "7", "8", "9"}

\* The metric values: the strings of 1 to MaxValueLen characters.
MetricValues == UNION { [1..k -> ValueChars] : k \in 1..MaxValueLen }

\* The dimension values of the rows that are enumerated.
DimensionValues == { <<"a">>, <<"1", "2">>, <<"1", ".", "5">> }

\* c in value
Contains(value, c) == \E i \in 1..Len(value) : value[i] = c

\* How many times c occurs in value.
Count(value, c) == Cardinality({ i \in 1..Len(value) : value[i] = c })

RECURSIVE DigitsValue(_)
\* The number a string of decimal digits denotes.
DigitsValue(ds) == IF Len(ds) = 0 THEN 0
                   ELSE 10 * DigitsValue(SubSeq(ds, 1, Len(ds) - 1))
                        + DigitValue(ds[Len(ds)])

\* value without its characters c.
Without(value, c) ==
    LET keep == { i \in 1..Len(value) : value[i] # c }
        F[k \in 0..Len(value)] ==
            IF k = 0 THEN <<>>
            ELSE IF k \in keep THEN Append(F[k - 1], value[k]) ELSE F[k - 1]
    IN F[Len(value)]

\* int(value) accepts the string: decimal digits only, at least one.
IntAccepts(value) ==
    /\ Len(value) >= 1
    /\ \A i \in 1..Len(value) : value[i] \in DecimalDigits

\* float(value) accepts the string: decimal digits with at most one '.',
\* at least one digit, and no other character (a ',' is none of them).
FloatAccepts(value) ==
    /\ \A i \in 1..Len(value) : value[i] \in DecimalDigits \cup {"."}
    /\ Count(value, ".") <= 1
    /\ Len(value) - Count(value, ".") >= 1

\* Typed values: a string, an integer, or a float kept as num / 10^scale.
StrValue(v) == [type |-> "str", s |-> v, num |-> 0, scale |-> 0]
IntValue(k) == [type |-> "int", s |-> <<>>, num |-> k, scale |-> 0]
FloatValue(k, sc) == [type |-> "float", s |-> <<>>, num |-> k, scale |-> sc]

\* The position of the '.' of a string that has one.
DotAt(value) == CHOOSE i \in 1..Len(value) : value[i] = "."

\* float(value) for a string float() accepts.
Float(value) ==
    IF Contains(value, ".")
    THEN FloatValue(DigitsValue(Without(value, ".")), Len(value) - DotAt(value))
    ELSE FloatValue(DigitsValue(value), 0)

NoRow == [ok |-> TRUE, error |-> "-", dimension |-> StrValue(<<>>),
          metric |-> StrValue(<<>>)]

\* Lines 101-104: float(value) if ',' or '.' is in value, int(value) if not;
\* ok is FALSE when the conversion raises ValueError.
ConvertMetric(value) ==
    IF Contains(value, ",") \/ Contains(value, ".")
    THEN IF FloatAccepts(value)
         THEN [ok |-> TRUE, v |-> Float(value)]
         ELSE [ok |-> FALSE, v |-> StrValue(<<>>)]
    ELSE IF IntAccepts(value)
         THEN [ok |-> TRUE, v |-> IntValue(DigitsValue(value))]
         ELSE [ok |-> FALSE, v |-> StrValue(<<>>)]

\* Lines 89-106 for a row with one dimension and one metric: the dict of the
\* row, or the ValueError of the conversion.
ExtractRow(dimension, value) ==
    IF ConvertMetric(value).ok
    THEN [ok |-> TRUE, error |-> "-", dimension |-> StrValue(dimension),
          metric |-> ConvertMetric(value).v]
    ELSE [ok |-> FALSE, error |-> "ValueError", dimension |-> StrValue(<<>>),
          metric |-> StrValue(<<>>)]

\* ------------------------------------------------------------------ state
VARIABLES
    pc,            \* position of get_dataframes / get_response
    n,             \* the loop variable of get_dataframes
    response,      \* the first-page response handed to get_response
    offset_list,   \* get_response: the offsets
    nextPageToken_ToList, \* get_response: the offsets as strings
    idx,           \* get_response: position in nextPageToken_ToList
    completeData,  \* get_response: the accumulated rows, as segments
    err,           \* the exception in flight
    result,        \* the outcome of get_dataframes
    df,            \* the table returned
    fetchLog,      \* page tokens of the get_report calls of this attempt
    extractions,   \* get_ga_data calls of this attempt
    sleeps,        \* the time.sleep calls, in milliseconds
    retried,       \* failures that took the retry branch
    honest,        \* every page of this attempt carried the rows due
    failures,      \* requests that raised an HTTPError with a retryable reason
    lost,          \* a retried attempt had accumulated rows when it failed
    cols,          \* column names: a column name of a table
    stripped,      \* column names: the name after the strip
    restripped,    \* column names: the stripped name after a second strip
    colPc,         \* column names: times the strip was applied
    mvalue,        \* extraction: the metric value of a row, a string
    dvalue,        \* extraction: the dimension value of a row, a string
    row,           \* extraction: the row get_ga_data builds, or its error
    xPc,           \* extraction: 0 before get_ga_data, 1 after
    env,           \* the environment of the run: the rowCounts the service
                   \* may report and the jitters random.random() may return
    frames,        \* two runs: the locals of each run's calls
    lists,         \* two runs: the completeData lists
    rng,           \* two runs: the state of the generator of module random
    script,        \* two runs: how the service answers each query
    alone,         \* two runs: what each run does when it runs alone
    overlap        \* two runs: a run has stepped while the other was under way

vars == <<pc, n, response, offset_list, nextPageToken_ToList, idx, completeData,
          err, result, df, fetchLog, extractions, sleeps,
          retried, honest, failures, lost, cols, stripped, restripped, colPc,
          mvalue, dvalue, row, xPc, env,
          frames, lists, rng, script, alone, overlap>>

\* The variables of the column-name and of the extraction specification.
columnVars == <<cols, stripped, restripped, colPc>>
extractVars == <<mvalue, dvalue, row, xPc>>
concVars == <<frames, lists, rng, script, alone, overlap>>
auxVars == <<columnVars, extractVars, env, concVars>>
\* The counters kept beside the program's state.
ghostVars == <<failures, lost>>

NoTable == [rows |-> <<>>, columns |-> <<>>]
Running == [kind |-> "running", error |-> "-"]

RECURSIVE SumRows(_)
\* len() of a row list kept as segments.
SumRows(segs) == IF Len(segs) = 0 THEN 0
                 ELSE segs[1].len + SumRows(Tail(segs))

\* ------------------------------------------------------- get_response
\* Variant: a check that reads samplesReadCounts only.
SamplingOnlyReadCounts(r) == r.src
\* if report_data.get('samplesReadCounts', []) or report_data.get('samplingSpaceSizes', [])
SamplingDetected(r) == r.src \/ r.sss

\* Variants of the offsets: without the test of nextPageToken; with
\* row_count // 100000 + 1 pages from row_count >= 100000 on; with
\* row_count // 100000 pages.
OffsetListNoTokenTest(row_count, hasToken) ==
    IF row_count > PageSize
    THEN [i \in 1..CeilDiv(row_count, PageSize) |-> (i - 1) * PageSize]
    ELSE <<0>>
OffsetListFloorPlusOne(row_count, hasToken) ==
    IF row_count >= PageSize /\ hasToken
    THEN [i \in 1..((row_count \div PageSize) + 1) |-> (i - 1) * PageSize]
    ELSE <<0>>
OffsetListFloor(row_count, hasToken) ==
    IF row_count > PageSize /\ hasToken
    THEN [i \in 1..(row_count \div PageSize) |-> (i - 1) * PageSize]
    ELSE <<0>>
\* The offsets of get_response for a first page with row_count and with
\* nextPageToken present or not.
OffsetList(row_count, hasToken) ==
    IF row_count > PageSize /\ hasToken
    THEN [i \in 1..CeilDiv(row_count, PageSize) |-> (i - 1) * PageSize]
    ELSE <<0>>

\* Variant: a loop that leaves out the last token.
LoopDoneEarly(i, tokens) == i >= Len(tokens)
\* for token in nextPageToken_ToList: the loop is over at position i.
LoopDone(i, tokens) == i > Len(tokens)

\* Variants: a list that starts with the rows of the first page, and a list
\* that is not renewed.
NewListFirstPage(old, r, attempt) ==
    <<[off |-> r.off, len |-> r.rows, sampled |-> (r.src \/ r.sss), att |-> attempt]>>
NewListKept(old, r, attempt) == old
\* completeData = []: the list before the page loop, whatever completeData
\* held and whatever the first page r of the attempt carries.
NewList(old, r, attempt) == <<>>

\* Variant: the tokens of the offsets after the first one.
TokenListRest(offs) == [i \in 1..(Len(offs) - 1) |-> Str(offs[i + 1])]
\* nextPageToken_ToList = [str(i) for i in offset_list]
TokenList(offs) == [i \in 1..Len(offs) |-> Str(offs[i])]

\* The rows get_ga_data extracts from a response, as one segment.
Segment(r, attempt) ==
    [off |-> r.off, len |-> r.rows, sampled |-> (r.src \/ r.sss), att |-> attempt]

\* pd.DataFrame(completeData) with the column names stripped.
DataFrame(data) ==
    [rows |-> data,
     columns |-> IF SumRows(data) = 0 THEN <<>>
                 ELSE [i \in 1..Len(QueryColumns) |-> StripColumn(QueryColumns[i])]]

\* ------------------------------------------------------- get_dataframes
\* Variant: except Exception as error.
CaughtAll(e) == TRUE
\* except HTTPError as error
Caught(e) == e.cls = "HTTPError"

\* error.resp.reason in [...]
Retryable(e) == e.reason \in RetryReasons

\* Variant: a sleep that grows by one second per attempt.
BackoffLinear(k, j) == (k + 1) * 1000 + j
\* time.sleep((2**n) + random.random()), in milliseconds
Backoff(k, j) == Pow2(k) * 1000 + j

\* Variants: range(0, 6) and range(0, 4).
AttemptsOneMore == 0..MaxAttempts
AttemptsOneFewer == 0..(MaxAttempts - 2)
\* range(0, 5)
Attempts == 0..(MaxAttempts - 1)

\* What get_dataframes returns when the loop is left without a return.
FallThrough == [kind |-> "none", error |-> "-"]

\* No second run: the variables of the two-run specification at rest.
IdleRuns ==
    /\ frames = <<>>
    /\ lists = <<>>
    /\ rng = 0
    /\ script = <<>>
    /\ alone = <<>>
    /\ overlap = FALSE

Init ==
    /\ pc = "try"
    /\ n = 0
    /\ response = NoResponse
    /\ offset_list = <<>>
    /\ nextPageToken_ToList = <<>>
    /\ idx = 0
    /\ completeData = <<>>
    /\ err = NoError
    /\ result = Running
    /\ df = NoTable
    /\ fetchLog = <<>>
    /\ extractions = 0
    /\ sleeps = <<>>
    /\ retried = 0
    /\ honest = TRUE
    /\ failures = 0
    /\ lost = FALSE
    /\ cols = <<>>
    /\ stripped = <<>>
    /\ restripped = <<>>
    /\ colPc = 0
    /\ mvalue = <<>>
    /\ dvalue = <<>>
    /\ row = NoRow
    /\ xPc = 0
    /\ env = PipelineEnv
    /\ IdleRuns

\* Lines 245-247: a new attempt; the first page is requested with '0' and
\* the service answers.
TryFetch ==
    /\ pc = "try"
    /\ \E rc \in env.rowCounts : \E r \in FirstResponses(rc) : response' = r
    /\ pc' = "get_response"
    /\ fetchLog' = <<FirstToken>>
    /\ extractions' = 0
    /\ offset_list' = <<>>
    /\ nextPageToken_ToList' = <<>>
    /\ idx' = 0
    /\ honest' = TRUE
    /\ UNCHANGED <<n, completeData, err, result, df, sleeps, retried,
                   ghostVars, auxVars>>

\* Lines 245-247: the first request of an attempt raises.
TryFetchRaises ==
    /\ pc = "try"
    /\ \E e \in Errors :
         /\ err' = e
         /\ failures' = IF RetryableFailure(e) THEN failures + 1 ELSE failures
    /\ pc' = "except"
    /\ fetchLog' = <<FirstToken>>
    /\ extractions' = 0
    /\ offset_list' = <<>>
    /\ nextPageToken_ToList' = <<>>
    /\ idx' = 0
    /\ honest' = TRUE
    /\ response' = NoResponse
    /\ UNCHANGED <<n, completeData, result, df, sleeps, retried, lost, auxVars>>

\* Lines 143-152: the first page is extracted, then the sampling check
\* raises SampledDataError, which reaches the except clause of get_dataframes.
RaiseSampled ==
    /\ pc = "get_response"
    /\ SamplingDetected(response)
    /\ extractions' = extractions + 1
    /\ pc' = "except"
    /\ err' = SampledDataError
    /\ UNCHANGED <<n, response, offset_list, nextPageToken_ToList, idx,
                   completeData, result, df, fetchLog, sleeps,
                   retried, honest, ghostVars, auxVars>>

\* Lines 143-174: no sampling; the offsets and their tokens are built.
BuildOffsets ==
    /\ pc = "get_response"
    /\ ~SamplingDetected(response)
    /\ extractions' = extractions + 1
    /\ offset_list' = OffsetList(response.rowCount, response.token)
    /\ nextPageToken_ToList' = TokenList(offset_list')
    /\ completeData' = NewList(completeData, response, n)
    /\ idx' = 1
    /\ pc' = "pages"
    /\ UNCHANGED <<n, response, err, result, df, fetchLog,
                   sleeps, retried, honest, ghostVars, auxVars>>

\* Lines 175-179: one iteration of the page loop.
PageFetch ==
    /\ pc = "pages"
    /\ ~LoopDone(idx, nextPageToken_ToList)
    /\ \E r \in PageResponses(nextPageToken_ToList[idx], response.rowCount) :
         /\ completeData' = Append(completeData, Segment(r, n))
         /\ honest' = (honest /\ r.rows = PageRows(response.rowCount, r.off))
    /\ fetchLog' = Append(fetchLog, nextPageToken_ToList[idx])
    /\ extractions' = extractions + 1
    /\ idx' = idx + 1
    /\ UNCHANGED <<pc, n, response, offset_list, nextPageToken_ToList, err,
                   result, df, sleeps, retried, ghostVars, auxVars>>

\* Lines 176-177: the request of a page raises inside the loop.
PageFetchRaises ==
    /\ pc = "pages"
    /\ ~LoopDone(idx, nextPageToken_ToList)
    /\ \E e \in Errors :
         /\ err' = e
         /\ failures' = IF RetryableFailure(e) THEN failures + 1 ELSE failures
    /\ fetchLog' = Append(fetchLog, nextPageToken_ToList[idx])
    /\ pc' = "except"
    /\ UNCHANGED <<n, response, offset_list, nextPageToken_ToList, idx,
                   completeData, result, df, extractions, sleeps, retried,
                   honest, lost, auxVars>>

\* Lines 181-184 and 250: the table is built, its columns stripped, and
\* get_dataframes returns it.
ReturnTable ==
    /\ pc = "pages"
    /\ LoopDone(idx, nextPageToken_ToList)
    /\ df' = DataFrame(completeData)
    /\ result' = [kind |-> "table", error |-> "-"]
    /\ pc' = "done"
    /\ UNCHANGED <<n, response, offset_list, nextPageToken_ToList, idx,
                   completeData, err, fetchLog, extractions,
                   sleeps, retried, honest, ghostVars, auxVars>>

\* Line 252: the exception is no HTTPError; it leaves get_dataframes.
Propagate ==
    /\ pc = "except"
    /\ ~Caught(err)
    /\ result' = [kind |-> "raised", error |-> err.cls]
    /\ pc' = "done"
    /\ UNCHANGED <<n, response, offset_list, nextPageToken_ToList, idx,
                   completeData, err, df, fetchLog, extractions,
                   sleeps, retried, honest, ghostVars, auxVars>>

\* Line 253: the caught HTTPError has no resp attribute; the handler raises
\* AttributeError.
HandlerRaises ==
    /\ pc = "except"
    /\ Caught(err)
    /\ ~err.resp
    /\ result' = [kind |-> "raised", error |-> "AttributeError"]
    /\ pc' = "done"
    /\ UNCHANGED <<n, response, offset_list, nextPageToken_ToList, idx,
                   completeData, err, df, fetchLog, extractions,
                   sleeps, retried, honest, ghostVars, auxVars>>

\* Lines 253-255 and 243: sleep, then the next iteration, or the end of the
\* loop and of the function.
SleepAndRetry ==
    /\ pc = "except"
    /\ Caught(err)
    /\ err.resp
    /\ Retryable(err)
    /\ \E j \in env.jitters : sleeps' = Append(sleeps, Backoff(n, j))
    /\ retried' = retried + 1
    /\ lost' = (lost \/ (idx >= 1 /\ completeData # <<>>))
    /\ err' = NoError
    /\ IF n + 1 \in Attempts
       THEN /\ n' = n + 1
            /\ pc' = "try"
            /\ result' = result
       ELSE /\ n' = n
            /\ pc' = "done"
            /\ result' = FallThrough
    /\ UNCHANGED <<response, offset_list, nextPageToken_ToList, idx,
                   completeData, df, fetchLog, extractions,
                   honest, failures, auxVars>>

\* Lines 256-257: break, and the function ends without a return statement.
Break ==
    /\ pc = "except"
    /\ Caught(err)
    /\ err.resp
    /\ ~Retryable(err)
    /\ result' = FallThrough
    /\ pc' = "done"
    /\ UNCHANGED <<n, response, offset_list, nextPageToken_ToList, idx,
                   completeData, err, df, fetchLog, extractions,
                   sleeps, retried, honest, ghostVars, auxVars>>

Next ==
    \/ TryFetch
    \/ TryFetchRaises
    \/ RaiseSampled
    \/ BuildOffsets
    \/ PageFetch
    \/ PageFetchRaises
    \/ ReturnTable
    \/ Propagate
    \/ HandlerRaises
    \/ SleepAndRetry
    \/ Break

Spec == Init /\ [][Next]_vars

\* The pipeline with both ends of the jitter and two rowCounts.
InitBackoff ==
    /\ pc = "try"
    /\ n = 0
    /\ response = NoResponse
    /\ offset_list = <<>>
    /\ nextPageToken_ToList = <<>>
    /\ idx = 0
    /\ completeData = <<>>
    /\ err = NoError
    /\ result = Running
    /\ df = NoTable
    /\ fetchLog = <<>>
    /\ extractions = 0
    /\ sleeps = <<>>
    /\ retried = 0
    /\ honest = TRUE
    /\ failures = 0
    /\ lost = FALSE
    /\ cols = <<>>
    /\ stripped = <<>>
    /\ restripped = <<>>
    /\ colPc = 0
    /\ mvalue = <<>>
    /\ dvalue = <<>>
    /\ row = NoRow
    /\ xPc = 0
    /\ env = BackoffEnv
    /\ IdleRuns

SpecBackoff == InitBackoff /\ [][Next]_vars

\* The pipeline as a thread that keeps running: a step that is possible is
\* taken.
FairSpec == Spec /\ WF_vars(Next)

\* ------------------------------------------- the column-name normalisation
\* The pipeline at rest and any column name as the name to normalise.
InitColumns ==
    /\ pc = "done"
    /\ n = 0
    /\ response = NoResponse
    /\ offset_list = <<>>
    /\ nextPageToken_ToList = <<>>
    /\ idx = 0
    /\ completeData = <<>>
    /\ err = NoError
    /\ result = Running
    /\ df = NoTable
    /\ fetchLog = <<>>
    /\ extractions = 0
    /\ sleeps = <<>>
    /\ retried = 0
    /\ honest = TRUE
    /\ failures = 0
    /\ lost = FALSE
    /\ cols \in ColumnNames
    /\ stripped = <<>>
    /\ restripped = <<>>
    /\ colPc = 0
    /\ mvalue = <<>>
    /\ dvalue = <<>>
    /\ row = NoRow
    /\ xPc = 0
    /\ env = PipelineEnv
    /\ IdleRuns

pipelineVars == <<pc, n, response, offset_list, nextPageToken_ToList, idx,
                  completeData, err, result, df, fetchLog, extractions, sleeps,
                  retried, honest, failures, lost>>

\* Line 183 on the column name.
Strip ==
    /\ colPc = 0
    /\ stripped' = StripColumn(cols)
    /\ colPc' = 1
    /\ UNCHANGED <<cols, restripped>>
    /\ UNCHANGED <<pipelineVars, extractVars, env, concVars>>

\* Line 183 applied again, to the name already stripped.
StripAgain ==
    /\ colPc = 1
    /\ restripped' = StripColumn(stripped)
    /\ colPc' = 2
    /\ UNCHANGED <<cols, stripped>>
    /\ UNCHANGED <<pipelineVars, extractVars, env, concVars>>

NextColumns == Strip \/ StripAgain

SpecColumns == InitColumns /\ [][NextColumns]_vars

\* ------------------------------------------------ the extraction of a row
\* The pipeline at rest and any row of one dimension and one metric value.
InitExtract ==
    /\ pc = "done"
    /\ n = 0
    /\ response = NoResponse
    /\ offset_list = <<>>
    /\ nextPageToken_ToList = <<>>
    /\ idx = 0
    /\ completeData = <<>>
    /\ err = NoError
    /\ result = Running
    /\ df = NoTable
    /\ fetchLog = <<>>
    /\ extractions = 0
    /\ sleeps = <<>>
    /\ retried = 0
    /\ honest = TRUE
    /\ failures = 0
    /\ lost = FALSE
    /\ cols = <<>>
    /\ stripped = <<>>
    /\ restripped = <<>>
    /\ colPc = 0
    /\ mvalue \in MetricValues
    /\ dvalue \in DimensionValues
    /\ row = NoRow
    /\ xPc = 0
    /\ env = PipelineEnv
    /\ IdleRuns

\* Lines 89-106: get_ga_data on the row.
Extract ==
    /\ xPc = 0
    /\ row' = ExtractRow(dvalue, mvalue)
    /\ xPc' = 1
    /\ UNCHANGED <<mvalue, dvalue>>
    /\ UNCHANGED <<pipelineVars, columnVars, env, concVars>>

NextExtract == Extract

SpecExtract == InitExtract /\ [][NextExtract]_vars

\* ------------------------------------------------ two runs side by side
\* Two callers of get_dataframes, each with its own query.
Runs == {1, 2}

\* How the service answers one query: the rowCount it reports, whether the
\* first page is sampled, and which get_report call of the query raises
\* (0: none) with which reason.
Scripts ==
    { sc \in [rowCount : {1, 2 * PageSize + 1}, sampled : BOOLEAN,
               failAt : {0, 1, 3}, reason : {"quotaExceeded", "notFound"}] :
        sc.failAt = 0 => sc.reason = "quotaExceeded" }

\* The HTTPError the service raises for a query.
ScriptError(sc) == [cls |-> "HTTPError", resp |-> TRUE, reason |-> sc.reason]

\* The first page the service returns for a query.
ScriptFirst(sc) ==
    [rowCount |-> sc.rowCount, token |-> (sc.rowCount > PageSize),
     src |-> sc.sampled, sss |-> FALSE,
     rows |-> PageRows(sc.rowCount, 0), off |-> 0]

\* The locals of a call of get_dataframes before its first attempt; calls
\* counts the get_report calls of the query, fetches logs their page tokens.
InitFrame ==
    [pc |-> "try", n |-> 0, calls |-> 0, response |-> NoResponse,
     nextPageToken_ToList |-> <<>>, idx |-> 0, completeData |-> <<>>,
     err |-> NoError, fetches |-> <<>>, sleeps |-> <<>>,
     result |-> Running, df |-> <<>>]

\* Lines 245-247 on the locals v of a run.
StepTry(v, sc) ==
    IF sc.failAt = v.calls + 1
    THEN [v EXCEPT !.calls = @ + 1, !.fetches = Append(@, FirstToken),
                   !.err = ScriptError(sc), !.pc = "except"]
    ELSE [v EXCEPT !.calls = @ + 1, !.fetches = Append(@, FirstToken),
                   !.response = ScriptFirst(sc), !.pc = "get_response"]

\* Lines 143-174 on the locals v of a run.
StepGetResponse(v) ==
    IF SamplingDetected(v.response)
    THEN [v EXCEPT !.err = SampledDataError, !.pc = "except"]
    ELSE [v EXCEPT !.nextPageToken_ToList =
                       TokenList(OffsetList(v.response.rowCount, v.response.token)),
                   !.completeData = NewList(@, v.response, v.n),
                   !.idx = 1, !.pc = "pages"]

\* Lines 175-184 and 250 on the locals v of the run for query q.
StepPage(v, sc, q) ==
    IF LoopDone(v.idx, v.nextPageToken_ToList)
    THEN [v EXCEPT !.df = v.completeData,
                   !.result = [kind |-> "table", error |-> "-"],
                   !.pc = "done"]
    ELSE LET t == v.nextPageToken_ToList[v.idx] IN
         IF sc.failAt = v.calls + 1
         THEN [v EXCEPT !.calls = @ + 1, !.fetches = Append(@, t),
                        !.err = ScriptError(sc), !.pc = "except"]
         ELSE [v EXCEPT !.calls = @ + 1, !.fetches = Append(@, t),
                        !.completeData =
                            Append(@, [q |-> q, off |-> TokenOffset(t),
                                       len |-> PageRows(sc.rowCount, TokenOffset(t))]),
                        !.idx = @ + 1]

\* Lines 252-257 and 243 on the locals v of a run, with jitter j.
StepExcept(v, j) ==
    IF ~Caught(v.err)
    THEN [v EXCEPT !.result = [kind |-> "raised", error |-> v.err.cls],
                   !.pc = "done"]
    ELSE IF ~v.err.resp
    THEN [v EXCEPT !.result = [kind |-> "raised", error |-> "AttributeError"],
                   !.pc = "done"]
    ELSE IF Retryable(v.err)
    THEN IF v.n + 1 \in Attempts
         THEN [v EXCEPT !.sleeps = Append(@, Backoff(v.n, j)),
                        !.err = NoError, !.n = @ + 1, !.pc = "try"]
         ELSE [v EXCEPT !.sleeps = Append(@, Backoff(v.n, j)),
                        !.err = NoError, !.result = FallThrough, !.pc = "done"]
    ELSE [v EXCEPT !.result = FallThrough, !.pc = "done"]

\* One step of the run for query q on its locals v.
Step(v, sc, q, j) ==
    CASE v.pc = "try" -> StepTry(v, sc)
      [] v.pc = "get_response" -> StepGetResponse(v)
      [] v.pc = "pages" -> StepPage(v, sc, q)
      [] v.pc = "except" -> StepExcept(v, j)
      [] OTHER -> v

\* What the caller of a run sees: the fetches issued and what came back.
Outcome(v) == [fetches |-> v.fetches, result |-> v.result, df |-> v.df]

RECURSIVE RunAlone(_, _, _)
\* The run for query q from locals v to its end with no other run about.
RunAlone(v, sc, q) ==
    IF v.pc = "done" THEN Outcome(v)
    ELSE RunAlone(Step(v, sc, q, 0), sc, q)

\* Variant: one list of the module, used by every call.
ListOfModule(p) == 1
\* completeData is a local of get_response: each call has its own list.
ListOf(p) == p

\* random.random() for the state s of the generator.
Jitter(s) == IF s = 0 THEN 0 ELSE 999

\* The locals of run p, its list included.
View(p) == [frames[p] EXCEPT !.completeData = lists[ListOf(p)]]

\* The other run has made a request and has not ended.
OtherUnderWay(p) ==
    \E o \in Runs \ {p} : frames[o].calls > 0 /\ frames[o].pc # "done"

\* Run p takes its step from w to the locals after it.
Store(p, w) ==
    /\ frames' = [frames EXCEPT ![p] = w]
    /\ lists' = [lists EXCEPT ![ListOf(p)] = w.completeData]
    /\ overlap' = (overlap \/ OtherUnderWay(p))
    /\ UNCHANGED <<script, alone, pipelineVars, columnVars, extractVars, env>>

InitTwoRuns ==
    /\ pc = "done"
    /\ n = 0
    /\ response = NoResponse
    /\ offset_list = <<>>
    /\ nextPageToken_ToList = <<>>
    /\ idx = 0
    /\ completeData = <<>>
    /\ err = NoError
    /\ result = Running
    /\ df = NoTable
    /\ fetchLog = <<>>
    /\ extractions = 0
    /\ sleeps = <<>>
    /\ retried = 0
    /\ honest = TRUE
    /\ failures = 0
    /\ lost = FALSE
    /\ cols = <<>>
    /\ stripped = <<>>
    /\ restripped = <<>>
    /\ colPc = 0
    /\ mvalue = <<>>
    /\ dvalue = <<>>
    /\ row = NoRow
    /\ xPc = 0
    /\ env = PipelineEnv
    /\ script \in [Runs -> Scripts]
    /\ frames = [p \in Runs |-> InitFrame]
    /\ lists = [p \in Runs |-> <<>>]
    /\ rng = 0
    /\ alone = [p \in Runs |-> RunAlone(InitFrame, script[p], p)]
    /\ overlap = FALSE

\* Lines 245-247 in run p.
ConcTry(p) ==
    /\ frames[p].pc = "try"
    /\ Store(p, Step(View(p), script[p], p, Jitter(rng)))
    /\ rng' = rng

\* Lines 143-174 in run p.
ConcGetResponse(p) ==
    /\ frames[p].pc = "get_response"
    /\ Store(p, Step(View(p), script[p], p, Jitter(rng)))
    /\ rng' = rng

\* Lines 175-184 in run p: one iteration of the page loop, or its end.
ConcPage(p) ==
    /\ frames[p].pc = "pages"
    /\ Store(p, Step(View(p), script[p], p, Jitter(rng)))
    /\ rng' = rng

\* Lines 252-257 in run p; a sleep draws from the generator both runs use.
ConcExcept(p) ==
    /\ frames[p].pc = "except"
    /\ Store(p, Step(View(p), script[p], p, Jitter(rng)))
    /\ rng' = IF Caught(frames[p].err) /\ frames[p].err.resp
                   /\ Retryable(frames[p].err)
               THEN 1 - rng ELSE rng

NextTwoRuns ==
    \E p \in Runs :
        \/ ConcTry(p)
        \/ ConcGetResponse(p)
        \/ ConcPage(p)
        \/ ConcExcept(p)

SpecTwoRuns == InitTwoRuns /\ [][NextTwoRuns]_vars

\* ------------------------------------------------------------------ claims
\* The attempt under way, or the last one, ran to its end with no exception:
\* no request raised and get_response found no sampling.
AttemptSucceeded ==
    /\ pc = "done"
    /\ err = NoError
    /\ ~(response.src \/ response.sss)
    /\ response # NoResponse

\* C1: after exactly 4 failures that took the retry branch the wrapper is in
\* its 5th attempt (n = 4) and has slept exactly 4 times; when that attempt
\* succeeds, the wrapper returns a table, and the table is the one assembled
\* in the 5th attempt.
C1_FourRetriesThenTable ==
    (retried = 4) =>
        /\ n = 4
        /\ Len(sleeps) = 4
        /\ AttemptSucceeded =>
             /\ result.kind = "table"
             /\ df.rows = completeData
             /\ \A i \in 1..Len(df.rows) : df.rows[i].att = 4

C1_Witness ==
    /\ pc = "done"
    /\ retried = 4
    /\ result.kind = "table"
    /\ Len(sleeps) = 4
    /\ Len(df.rows) = 3
    /\ df.rows[1].att = 4

\* C2, as claimed: an attempt that ends with an error whose reason is not
\* one of the retryable reasons ends the wrapper by raising that error.
C2_NonRetryableIsRaised ==
    (pc = "done" /\ err.resp /\ err.reason \notin RetryReasons) =>
        /\ result.kind = "raised"
        /\ result.error = err.cls

\* C3: the wrapper never starts a 6th attempt, and once 5 attempts have
\* failed with a retryable error it has ended and returned no result: no
\* table and no raised error.
C3_FiveAttemptsThenNone ==
    /\ n < 5
    /\ retried <= 5
    /\ (retried = 5) =>
         /\ pc = "done"
         /\ result.kind = "none"
         /\ df = NoTable

C3_Witness ==
    /\ pc = "done"
    /\ retried = 5
    /\ n = 4
    /\ result.kind = "none"
    /\ Len(sleeps) = 5

\* A run without any failure has ended: the first attempt returned a table.
FailureFreeRun ==
    /\ pc = "done"
    /\ n = 0
    /\ retried = 0
    /\ result.kind = "table"

\* C4, as claimed: a failure-free run for a first page with
\* rowCount <= 100000 and no sampling issues one get_report call in total,
\* and the offset sequence is [0].
C4_OneFetchInTotal ==
    (FailureFreeRun /\ response.rowCount <= 100000) =>
        /\ Len(fetchLog) = 1
        /\ offset_list = <<0>>

\* C4, amended: such a run issues exactly two get_report calls in total, both
\* for page token "0" (the first page requested by get_dataframes and the one
\* page of the offset sequence requested by get_response), and the offset
\* sequence is [0].
C4_TwoFetchesInTotal ==
    (FailureFreeRun /\ response.rowCount <= 100000) =>
        /\ fetchLog = << <<"0">>, <<"0">> >>
        /\ offset_list = <<0>>

C4_Witness ==
    /\ FailureFreeRun
    /\ response.rowCount = 100000
    /\ response.token
    /\ fetchLog = << <<"0">>, <<"0">> >>

\* The first page of the attempt reports more than one page of rows and
\* carries a continuation token.
MultiPage == response.rowCount > 100000 /\ response.token

\* ceil(rowCount / 100000), by its definition: the least k with
\* k * 100000 >= rowCount.
PagesOf(rc) == CHOOSE k \in 0..(MaxPages + 1) :
                  /\ k * 100000 >= rc
                  /\ \A j \in 0..(MaxPages + 1) : j * 100000 >= rc => k <= j

\* C5, as claimed: a failure-free multi-page run issues k = ceil(rowCount /
\* 100000) get_report calls in total, at offsets 0, 100000, ..., (k-1)*100000.
C5_CeilFetchesInTotal ==
    (FailureFreeRun /\ MultiPage) =>
        /\ Len(fetchLog) = PagesOf(response.rowCount)
        /\ \A i \in 1..Len(fetchLog) : TokenOffset(fetchLog[i]) = (i - 1) * 100000

\* C5, amended: such a run issues k + 1 get_report calls in total: the first
\* page at offset 0, then the k pages at offsets 0, 100000, ..., (k-1)*100000;
\* for rowCount = 250000 these are the 4 calls at 0, 0, 100000, 200000.
C5_CeilPlusOneFetchesInTotal ==
    (FailureFreeRun /\ MultiPage) =>
        /\ Len(fetchLog) = PagesOf(response.rowCount) + 1
        /\ fetchLog[1] = <<"0">>
        /\ \A i \in 2..Len(fetchLog) : TokenOffset(fetchLog[i]) = (i - 2) * 100000
        /\ (response.rowCount = 250000) =>
              fetchLog = << <<"0">>, <<"0">>,
                            <<"1", "0", "0", "0", "0", "0">>,
                            <<"2", "0", "0", "0", "0", "0">> >>

C5_Witness ==
    /\ FailureFreeRun
    /\ MultiPage
    /\ response.rowCount = 250000
    /\ Len(fetchLog) = 4

FullyAssembled ==
    /\ Len(offset_list) >= 1
    /\ Len(df.rows) = Len(offset_list)
    /\ \A i \in 1..Len(offset_list) :
         /\ df.rows[i].off = offset_list[i]
         /\ df.rows[i].att = n

\* C7, as claimed: every outcome is the fully assembled table or a raised
\* error; stated for the runs that end with no exception in flight, that is,
\* in which get_report raised nothing but errors that were retried.
C7_TableOrError ==
    (pc = "done" /\ err = NoError) =>
        \/ result.kind = "table" /\ FullyAssembled
        \/ result.kind = "raised" /\ df = NoTable

\* C7, amended: every outcome is the fully assembled table, a raised error,
\* or no result at all (the wrapper returns None after its 5th retryable
\* failure and after a caught error that is not retryable); no outcome holds
\* a table that lacks the rows of an offset of the sequence.
C7_TableErrorOrNone ==
    /\ (pc = "done") =>
         \/ result.kind = "table" /\ FullyAssembled
         \/ result.kind = "raised" /\ df = NoTable
         \/ result.kind = "none" /\ df = NoTable
    /\ (pc # "done") => (result.kind = "running" /\ df = NoTable)

\* An earlier attempt failed and was retried, and the run ended with a fully
\* assembled table of 3 pages.
C7_Witness ==
    /\ pc = "done"
    /\ result.kind = "table"
    /\ retried = 1
    /\ Len(offset_list) = 3
    /\ FullyAssembled

\* C8, as claimed: when every page carried the rows due, the table returned
\* has rowCount rows, with or without a continuation token in the first page.
C8_RowCountAlways ==
    (pc = "done" /\ result.kind = "table" /\ honest) =>
        SumRows(df.rows) = response.rowCount

\* C8, amended: when every page carried the rows due, the table returned has
\* rowCount rows if rowCount <= 100000 or the first page carries a
\* continuation token; with rowCount > 100000 and no continuation token it
\* has the 100000 rows of the page at offset 0 only.
C8_RowCountWhenPaged ==
    (pc = "done" /\ result.kind = "table" /\ honest) =>
        /\ (response.rowCount <= 100000 \/ response.token) =>
              SumRows(df.rows) = response.rowCount
        /\ (response.rowCount > 100000 /\ ~response.token) =>
              SumRows(df.rows) = 100000

C8_Witness ==
    /\ pc = "done"
    /\ result.kind = "table"
    /\ honest
    /\ response.token
    /\ response.rowCount = 250000
    /\ SumRows(df.rows) = 250000

\* A page token is the decimal string of an offset: digits only, no leading
\* zero unless it is "0".
IsDecimal(t) ==
    /\ Len(t) >= 1
    /\ \A i \in 1..Len(t) : \E d \in 1..10 : Digit[d] = t[i]
    /\ (Len(t) > 1) => t[1] # "0"

\* C9: once get_response has built it, the offset sequence starts at 0 and
\* grows in steps of exactly 100000; it is [0] when rowCount <= 100000 or the
\* first page has no continuation token, and has ceil(rowCount / 100000)
\* elements otherwise; the page tokens are the decimal strings of the
\* offsets, and the requests of the page loop carry them in order.
C9_OffsetSequence ==
    (idx >= 1) =>
        /\ Len(offset_list) >= 1
        /\ offset_list[1] = 0
        /\ \A i \in 1..(Len(offset_list) - 1) :
             offset_list[i + 1] = offset_list[i] + 100000
        /\ (response.rowCount <= 100000 \/ ~response.token) => offset_list = <<0>>
        /\ MultiPage => Len(offset_list) = PagesOf(response.rowCount)
        /\ Len(nextPageToken_ToList) = Len(offset_list)
        /\ \A i \in 1..Len(offset_list) :
             /\ IsDecimal(nextPageToken_ToList[i])
             /\ TokenOffset(nextPageToken_ToList[i]) = offset_list[i]
        /\ \A i \in 2..Len(fetchLog) : fetchLog[i] = nextPageToken_ToList[i - 1]

C9_Witness ==
    /\ pc = "pages"
    /\ offset_list = <<0, 100000, 200000>>
    /\ response.rowCount = 200001
    /\ Len(fetchLog) = 4

\* A column name in which ':' occurs only in a leading "ga:".
PlainName(s) ==
    \A i \in 1..Len(s) :
        (s[i] = ":") => (i = 3 /\ s[1] = "g" /\ s[2] = "a")

\* The name without its leading "ga:", when it has one.
WithoutPrefix(s) ==
    IF Len(s) >= 3 /\ s[1] = "g" /\ s[2] = "a" /\ s[3] = ":"
    THEN SubSeq(s, 4, Len(s)) ELSE s

\* C10, as claimed: stripping a stripped column name changes nothing, for
\* every column name.
C10_StripIdempotent ==
    (colPc = 2) => restripped = stripped

\* C10, amended: for every column name in which ':' occurs only in a leading
\* "ga:", the normalisation gives the name without that prefix, and stripping
\* the result again changes nothing.
C10_StripPlainNames ==
    /\ (colPc >= 1 /\ PlainName(cols)) => stripped = WithoutPrefix(cols)
    /\ (colPc = 2 /\ PlainName(cols)) => restripped = stripped

C10_Witness ==
    /\ colPc = 2
    /\ cols = <<"g", "a", ":", "g", "a", "d">>
    /\ stripped = <<"g", "a", "d">>
    /\ restripped = stripped

\* A metric value written as a number: decimal digits, with at most one
\* separator, '.' or ',', that stands between two digits.
NumberShaped(value) ==
    /\ \A i \in 1..Len(value) : value[i] \in DecimalDigits \cup {".", ","}
    /\ Count(value, ".") + Count(value, ",") <= 1
    /\ value[1] \in DecimalDigits
    /\ value[Len(value)] \in DecimalDigits

\* C11, as claimed: for a metric value written as a number, extraction does
\* not fail; the metric is a float when the value contains '.' or ',', and an
\* integer otherwise ("1234" gives the integer 1234, "12.5" the float 12.5);
\* the dimension value is the unconverted string.
C11_MetricsConverted ==
    (xPc = 1 /\ NumberShaped(mvalue)) =>
        /\ row.ok
        /\ row.dimension = [type |-> "str", s |-> dvalue, num |-> 0, scale |-> 0]
        /\ (Contains(mvalue, ".") \/ Contains(mvalue, ",")) => row.metric.type = "float"
        /\ ~(Contains(mvalue, ".") \/ Contains(mvalue, ",")) => row.metric.type = "int"
        /\ (mvalue = <<"1", "2", "3", "4">>) => row.metric.num = 1234
        /\ (mvalue = <<"1", "2", ".", "5">>) =>
              (row.metric.num = 125 /\ row.metric.scale = 1)

\* ------------------------------------------------------------------ C12
\* The sequence a is an initial part of the sequence b.
IsPrefix(a, b) ==
    /\ Len(a) <= Len(b)
    /\ \A i \in 1..Len(a) : a[i] = b[i]

FetchesAt(o) == { i \in 1..Len(fetchLog) : TokenOffset(fetchLog[i]) = o }

\* C13: in a failure-free multi-page assembly the page at offset 0 is
\* requested exactly twice, as the first page before get_response and as the
\* first element of the offset sequence; every other offset of the sequence
\* is requested exactly once.
C13_OffsetZeroTwice ==
    (FailureFreeRun /\ MultiPage) =>
        /\ FetchesAt(0) = {1, 2}
        /\ offset_list[1] = 0
        /\ \A k \in 2..Len(offset_list) :
              Cardinality(FetchesAt(offset_list[k])) = 1
        /\ Len(fetchLog) = Len(offset_list) + 1

C13_Witness ==
    /\ FailureFreeRun
    /\ MultiPage
    /\ response.rowCount = 250000
    /\ Cardinality(FetchesAt(0)) = 2
    /\ Cardinality(FetchesAt(200000)) = 1

\* ------------------------------------------------------------------ C14
\* get_response is in its page loop or has returned its table.
Assembling == pc = "pages" \/ (pc = "done" /\ result.kind = "table")

\* C14: the rows get_response accumulates, and the table it returns, are the
\* rows of the fetches of the offset sequence, one segment per fetch in
\* increasing offset order, each response extracted before the next fetch is
\* issued; the rows of the initial first-page response are never appended,
\* so the accumulated list has one segment fewer than there were fetches.
C14_ConcatenationInOffsetOrder ==
    /\ Assembling =>
          /\ Len(completeData) = idx - 1
          /\ Len(completeData) = Len(fetchLog) - 1
          /\ extractions = Len(fetchLog)
          /\ \A i \in 1..Len(completeData) :
                /\ completeData[i].off = offset_list[i]
                /\ completeData[i].off = TokenOffset(fetchLog[i + 1])
          /\ \A i \in 1..Len(completeData) : \A j \in 1..Len(completeData) :
                i < j => completeData[i].off < completeData[j].off
    /\ (pc = "done" /\ result.kind = "table") =>
          /\ df.rows = completeData
          /\ Len(df.rows) = Len(offset_list)
          /\ honest => SumRows(df.rows) =
                          SumRows([i \in 1..Len(offset_list) |->
                             [len |-> PageRows(response.rowCount, offset_list[i])]])

C14_Witness ==
    /\ pc = "done"
    /\ result.kind = "table"
    /\ response.rowCount = 250000
    /\ response.token
    /\ Len(fetchLog) = 4
    /\ Len(df.rows) = 3
    /\ df.rows[1].len = 100000
    /\ df.rows[3].len = 50000

\* ------------------------------------------------------------------ C15
\* C15, as claimed: no table returned contains rows taken from a response
\* that carried sampling indicators, whichever fetch produced it.
C15_NoSampledRows ==
    (pc = "done" /\ result.kind = "table") =>
        \A i \in 1..Len(df.rows) : ~df.rows[i].sampled

\* ------------------------------------------------------------------ C16
\* C16: a SampledDataError raised during an attempt is never retried: it is
\* raised by the first page of the attempt, no sleep follows it (the sleeps
\* are those of the attempts before), no fetch follows it, and
\* get_dataframes ends by raising it.
C16_SampledNeverRetried ==
    (err.cls = "SampledDataError" \/ result.error = "SampledDataError") =>
        /\ err = SampledDataError
        /\ pc \in {"except", "done"}
        /\ Len(sleeps) = n
        /\ retried = n
        /\ fetchLog = <<FirstToken>>
        /\ (pc = "done") => result = [kind |-> "raised", error |-> "SampledDataError"]

C16_Witness ==
    /\ pc = "done"
    /\ result = [kind |-> "raised", error |-> "SampledDataError"]
    /\ n = 2
    /\ Len(sleeps) = 2
    /\ fetchLog = <<FirstToken>>

\* ------------------------------------------------------------------ C17
\* A retryable failure has been raised and its sleep has not begun.
SleepPending == pc = "except" /\ RetryableFailure(err)

OffsetsFor(r) ==
    IF r.rowCount > 100000 /\ r.token
    THEN [i \in 1..PagesOf(r.rowCount) |-> (i - 1) * 100000]
    ELSE <<0>>

\* C18: after a retryable failure at any fetch the rows accumulated so far
\* are gone: every attempt starts with a fetch at offset 0, its offsets are
\* those of its own first page, and the rows it accumulates and returns are
\* rows fetched during that attempt only.
C18_RetryStartsOver ==
    /\ (fetchLog = <<>> \/ fetchLog[1] = <<"0">>)
    /\ Assembling =>
          /\ offset_list = OffsetsFor(response)
          /\ \A i \in 1..Len(completeData) : completeData[i].att = n
    /\ (pc = "done" /\ result.kind = "table") =>
          \A i \in 1..Len(df.rows) : df.rows[i].att = n

C18_Witness ==
    /\ pc = "done"
    /\ result.kind = "table"
    /\ lost
    /\ n = 1
    /\ response.rowCount = 1
    /\ Len(df.rows) = 1
    /\ df.rows[1].att = 1

\* ------------------------------------------------------------------ C19
\* The fetches of the attempt stay within bound for its first page: one
\* fetch when the first request raised.
FetchesWithin(bound) ==
    IF response = NoResponse THEN Len(fetchLog) <= 1
    ELSE Len(fetchLog) <= bound

\* C19, as claimed: get_dataframes terminates after at most 5 attempts, each
\* issuing at most 1 + ceil(rowCount / 100000) fetches.
C19_TerminatesWithinCeil ==
    /\ <>(pc = "done")
    /\ [](n + 1 <= 5 /\ FetchesWithin(1 + PagesOf(response.rowCount)))

\* C19, amended: get_dataframes terminates, with a table, no result or an
\* exception, after at most 5 attempts, each issuing at most
\* 1 + max(1, ceil(rowCount / 100000)) fetches: an attempt whose first page
\* reports rowCount = 0 issues 2 fetches.
C19_TerminatesWithinBound ==
    /\ <>(pc = "done" /\ result.kind \in {"table", "none", "raised"})
    /\ [](n + 1 <= 5 /\ Len(sleeps) <= 5
           /\ FetchesWithin(1 + Max(1, PagesOf(response.rowCount))))

C19_Witness ==
    /\ pc = "done"
    /\ result.kind = "table"
    /\ n = 4
    /\ response.rowCount = 0
    /\ Len(fetchLog) = 2

====
